---- MODULE Spec2Model ----
(***************************************************************************)
(* The ingestion pipeline of src/src/loader.py (DataLoader): the member,   *)
(* unavailability, template and event loaders, the demand builder, the     *)
(* override applier and load_all, which sequences them.                    *)
(*                                                                         *)
(* A Python str is a sequence of character codes (<<83,117,110>> is        *)
(* "Sun"), so that strip(), lower(), split() and the ordering of strings   *)
(* are computed and not assumed.  A CSV file is a record                   *)
(* [exists, rows]; the file system fs is the program's input and is drawn  *)
(* by Init.  A date cell is the triple <<year, month, day>> of its text    *)
(* and a parsed date is the number year*10000 + month*100 + day, which is  *)
(* ordered as datetime.date is.                                            *)
(***************************************************************************)
EXTENDS Integers, Sequences, FiniteSets, TLC

VARIABLES
    fs,                 \* the data folder: one [exists, rows] record per file
    pc,                 \* the statement of load_all about to run
    steps,              \* history: the components load_all has called so far
    members_list,       \* load_all's locals, bound as each call returns
    fingerprint_map,
    unavailability_map,
    templates_map,
    events_list,
    base_demands,
    final_demands,
    error,              \* the exception that left load_all, if any
    result              \* the tuple load_all returned, if any

vars == <<fs, pc, steps, members_list, fingerprint_map, unavailability_map,
          templates_map, events_list, base_demands, final_demands, error, result>>

(***************************************************************************)
(* Bounds: the longest table of each kind the specifications draw.         *)
(***************************************************************************)
MaxRows == 2

MaxMembers == 3

MaxUnavail == 2

MaxTemplateRows == 3

MaxEvents == 3

(***************************************************************************)
(* Strings.                                                                *)
(***************************************************************************)
IsSpace(c) == c \in {9, 10, 11, 12, 13, 32}

RECURSIVE lstrip(_)
lstrip(s) == IF s # <<>> /\ IsSpace(Head(s)) THEN lstrip(Tail(s)) ELSE s

RECURSIVE rstrip(_)
rstrip(s) ==
    IF s # <<>> /\ IsSpace(s[Len(s)]) THEN rstrip(SubSeq(s, 1, Len(s) - 1)) ELSE s

\* str.strip()
strip(s) == rstrip(lstrip(s))

\* str.lower() on ASCII letters
lower(s) == [i \in 1..Len(s) |-> IF s[i] \in 65..90 THEN s[i] + 32 ELSE s[i]]

\* str.split(sep) for a one-character separator
RECURSIVE split(_, _)
split(s, sep) ==
    IF \A i \in 1..Len(s) : s[i] # sep
    THEN <<s>>
    ELSE LET i == CHOOSE k \in 1..Len(s) :
                      s[k] = sep /\ \A j \in 1..(k - 1) : s[j] # sep
         IN  <<SubSeq(s, 1, i - 1)>> \o split(SubSeq(s, i + 1, Len(s)), sep)

\* a < b on str: lexicographic on the character codes
RECURSIVE str_lt(_, _)
str_lt(a, b) ==
    IF b = <<>> THEN FALSE
    ELSE IF a = <<>> THEN TRUE
    ELSE IF Head(a) # Head(b) THEN Head(a) < Head(b)
    ELSE str_lt(Tail(a), Tail(b))

\* utils.get_key_fingerprint: the canonical key of a display name; names that
\* differ in case or surrounding whitespace get the same key.
get_key_fingerprint(raw_name) == lower(strip(raw_name))

(***************************************************************************)
(* Dates.                                                                  *)
(***************************************************************************)
DaysInMonth(y, m) ==
    IF m \in {4, 6, 9, 11} THEN 30
    ELSE IF m # 2 THEN 31
    ELSE IF (y % 4 = 0 /\ y % 100 # 0) \/ y % 400 = 0 THEN 29 ELSE 28

DateIsValid(cell) ==
    /\ cell[2] \in 1..12
    /\ cell[3] \in 1..DaysInMonth(cell[1], cell[2])

ToDate(cell) == cell[1] * 10000 + cell[2] * 100 + cell[3]

\* utils.parse_dates_safely(df, col): the table with its date column parsed,
\* or a failure when some cell is no date; no cell is coerced or skipped.
parse_dates_safely(rows) ==
    IF \E i \in 1..Len(rows) : ~DateIsValid(rows[i].date)
    THEN [ok |-> FALSE, rows |-> <<>>]
    ELSE [ok |-> TRUE,
          rows |-> [i \in 1..Len(rows) |-> [rows[i] EXCEPT !.date = ToDate(@)]]]

(***************************************************************************)
(* Errors and empty values.                                                *)
(***************************************************************************)
Err(kind, name, date) == [kind |-> kind, name |-> name, date |-> date]

NoError == Err("None", <<>>, 0)

EmptyMap == [k \in {} |-> 0]

NoResult == [returned |-> FALSE, members |-> <<>>, demands |-> <<>>,
             unavailability |-> {}]

(***************************************************************************)
(* DataLoader.load_members                                                 *)
(***************************************************************************)
\* one roster row to a Member
MemberOf(row, raw_name) ==
    [id |-> row.id,
     name |-> raw_name,
     roles |-> LET parts == split(row.roles, 59)
               IN  {strip(parts[k]) : k \in 1..Len(parts)},
     max_shifts |-> row.max_shifts]

\* the loop over the rows, from row i on
RECURSIVE load_members_rows(_, _, _, _)
load_members_rows(rows, i, members, fp_map) ==
    IF i > Len(rows)
    THEN [error |-> NoError, members |-> members, fingerprint_map |-> fp_map]
    ELSE LET row == rows[i]
             raw_name == strip(row.name)
             fingerprint == get_key_fingerprint(raw_name)
         IN  IF fingerprint \in DOMAIN fp_map
             THEN [error |-> Err("DuplicateIdentity", raw_name, 0),
                   members |-> <<>>, fingerprint_map |-> EmptyMap]
             ELSE load_members_rows(rows, i + 1,
                                    Append(members, MemberOf(row, raw_name)),
                                    (fingerprint :> row.id) @@ fp_map)

\* faulty variant: no collision check, a later row with the same fingerprint
\* overwrites the map entry of the earlier one
RECURSIVE load_members_rows_overwrite(_, _, _, _)
load_members_rows_overwrite(rows, i, members, fp_map) ==
    IF i > Len(rows)
    THEN [error |-> NoError, members |-> members, fingerprint_map |-> fp_map]
    ELSE LET row == rows[i]
             raw_name == strip(row.name)
             fingerprint == get_key_fingerprint(raw_name)
         IN  load_members_rows_overwrite(rows, i + 1,
                 Append(members, MemberOf(row, raw_name)),
                 (fingerprint :> row.id) @@ fp_map)

load_members_overwrite(file) ==
    IF ~file.exists
    THEN [error |-> Err("SourceNotFound", <<>>, 0),
          members |-> <<>>, fingerprint_map |-> EmptyMap]
    ELSE load_members_rows_overwrite(file.rows, 1, <<>>, EmptyMap)

load_members(file) ==
    IF ~file.exists
    THEN [error |-> Err("SourceNotFound", <<>>, 0),
          members |-> <<>>, fingerprint_map |-> EmptyMap]
    ELSE load_members_rows(file.rows, 1, <<>>, EmptyMap)

(***************************************************************************)
(* DataLoader.load_unavailability                                          *)
(***************************************************************************)
\* the loop over the (date-parsed) rows, from row i on
RECURSIVE load_unavailability_rows(_, _, _, _)
load_unavailability_rows(rows, i, fp_map, unavailabilities) ==
    IF i > Len(rows)
    THEN [error |-> NoError, unavailabilities |-> unavailabilities]
    ELSE LET raw_name == rows[i].name
             day == rows[i].date
             search_key == get_key_fingerprint(raw_name)
         IN  IF search_key \notin DOMAIN fp_map
             THEN [error |-> Err("UnknownMember", raw_name, 0),
                   unavailabilities |-> {}]
             ELSE load_unavailability_rows(rows, i + 1, fp_map,
                      unavailabilities \cup {<<fp_map[search_key], day>>})

\* faulty variant: a row whose name does not resolve is skipped
RECURSIVE load_unavailability_rows_skip(_, _, _, _)
load_unavailability_rows_skip(rows, i, fp_map, unavailabilities) ==
    IF i > Len(rows)
    THEN [error |-> NoError, unavailabilities |-> unavailabilities]
    ELSE LET search_key == get_key_fingerprint(rows[i].name)
         IN  IF search_key \notin DOMAIN fp_map
             THEN load_unavailability_rows_skip(rows, i + 1, fp_map,
                                                unavailabilities)
             ELSE load_unavailability_rows_skip(rows, i + 1, fp_map,
                      unavailabilities \cup {<<fp_map[search_key], rows[i].date>>})

load_unavailability_skip(file, fp_map) ==
    IF ~file.exists
    THEN [error |-> NoError, unavailabilities |-> {}]
    ELSE LET df == parse_dates_safely(file.rows)
         IN  IF ~df.ok
             THEN [error |-> Err("MalformedField", <<>>, 0), unavailabilities |-> {}]
             ELSE load_unavailability_rows_skip(df.rows, 1, fp_map, {})

\* faulty variant: the unavailability file is required like the others
load_unavailability_required(file, fp_map) ==
    IF ~file.exists
    THEN [error |-> Err("SourceNotFound", <<>>, 0), unavailabilities |-> {}]
    ELSE LET df == parse_dates_safely(file.rows)
         IN  IF ~df.ok
             THEN [error |-> Err("MalformedField", <<>>, 0), unavailabilities |-> {}]
             ELSE load_unavailability_rows(df.rows, 1, fp_map, {})

load_unavailability(file, fp_map) ==
    IF ~file.exists
    THEN [error |-> NoError, unavailabilities |-> {}]
    ELSE LET df == parse_dates_safely(file.rows)
         IN  IF ~df.ok
             THEN [error |-> Err("MalformedField", <<>>, 0), unavailabilities |-> {}]
             ELSE load_unavailability_rows(df.rows, 1, fp_map, {})

(***************************************************************************)
(* DataLoader.load_templates                                               *)
(***************************************************************************)
\* A quantity cell is [kind, tenths]: a number, in tenths (15 is 1.5), or
\* text that is no number.  int() of a number truncates toward zero; int()
\* of text, and so of every cell of a column that holds text, raises.
int(cell) ==
    IF cell.kind # "num" THEN [ok |-> FALSE, value |-> 0]
    ELSE [ok |-> TRUE,
          value |-> IF cell.tenths >= 0 THEN cell.tenths \div 10
                    ELSE -((-cell.tenths) \div 10)]

\* df.groupby(EVENT_TEMPLATE): the groups' keys are the raw cell values,
\* iterated in ascending order; a group keeps its rows in table order
RECURSIVE SortedKeys(_)
SortedKeys(S) ==
    IF S = {} THEN <<>>
    ELSE LET m == CHOOSE x \in S : \A y \in S \ {x} : str_lt(x, y)
         IN  <<m>> \o SortedKeys(S \ {m})

GroupKeys(rows) == SortedKeys({rows[i].event_template : i \in 1..Len(rows)})

GroupRows(rows, name) == SelectSeq(rows, LAMBDA r : r.event_template = name)

\* the inner loop: the rules of one group
RulesOf(group) ==
    IF \E i \in 1..Len(group) : ~int(group[i].min_qty).ok \/ ~int(group[i].max_qty).ok
    THEN [ok |-> FALSE, rules |-> <<>>]
    ELSE [ok |-> TRUE,
          rules |-> [i \in 1..Len(group) |->
                        [role |-> group[i].role,
                         min_qty |-> int(group[i].min_qty).value,
                         max_qty |-> int(group[i].max_qty).value]]]

\* templates[clean_name] = EventTemplate(...): dict assignment
Assign(map, key, value) ==
    [k \in DOMAIN map \cup {key} |-> IF k = key THEN value ELSE map[k]]

\* the outer loop over the groups, from group i on
RECURSIVE load_templates_groups(_, _, _, _)
load_templates_groups(rows, keys, i, templates) ==
    IF i > Len(keys)
    THEN [error |-> NoError, templates |-> templates]
    ELSE LET name == keys[i]
             r == RulesOf(GroupRows(rows, name))
             clean_name == strip(name)
         IN  IF ~r.ok
             THEN [error |-> Err("MalformedField", name, 0), templates |-> EmptyMap]
             ELSE load_templates_groups(rows, keys, i + 1,
                      Assign(templates, clean_name,
                             [name |-> clean_name, rules |-> r.rules]))

load_templates(file) ==
    IF ~file.exists
    THEN [error |-> Err("SourceNotFound", <<>>, 0), templates |-> EmptyMap]
    ELSE load_templates_groups(file.rows, GroupKeys(file.rows), 1, EmptyMap)

(***************************************************************************)
(* DataLoader.load_events                                                  *)
(***************************************************************************)
\* sorted(events, key=lambda x: x.date): a stable sort; each event goes
\* behind the events already placed whose date is not later
RECURSIVE insert_by_date(_, _)
insert_by_date(placed, e) ==
    IF placed = <<>> THEN <<e>>
    ELSE IF e.date < Head(placed).date THEN <<e>> \o placed
    ELSE <<Head(placed)>> \o insert_by_date(Tail(placed), e)

RECURSIVE sorted_by_date(_)
sorted_by_date(events) ==
    IF events = <<>> THEN <<>>
    ELSE insert_by_date(sorted_by_date(SubSeq(events, 1, Len(events) - 1)),
                        events[Len(events)])

EventsOf(rows) ==
    [i \in 1..Len(rows) |->
        [date |-> rows[i].date, event_template |-> strip(rows[i].event_template)]]

\* faulty variant: an unstable sort, each event goes in front of the events already
\* placed whose date is not earlier
RECURSIVE insert_by_date_front(_, _)
insert_by_date_front(placed, e) ==
    IF placed = <<>> THEN <<e>>
    ELSE IF e.date <= Head(placed).date THEN <<e>> \o placed
    ELSE <<Head(placed)>> \o insert_by_date_front(Tail(placed), e)

RECURSIVE sorted_by_date_unstable(_)
sorted_by_date_unstable(events) ==
    IF events = <<>> THEN <<>>
    ELSE insert_by_date_front(
             sorted_by_date_unstable(SubSeq(events, 1, Len(events) - 1)),
             events[Len(events)])

load_events_unstable(file) ==
    IF ~file.exists
    THEN [error |-> Err("SourceNotFound", <<>>, 0), events |-> <<>>]
    ELSE LET df == parse_dates_safely(file.rows)
         IN  IF ~df.ok
             THEN [error |-> Err("MalformedField", <<>>, 0), events |-> <<>>]
             ELSE [error |-> NoError,
                   events |-> sorted_by_date_unstable(EventsOf(df.rows))]

load_events(file) ==
    IF ~file.exists
    THEN [error |-> Err("SourceNotFound", <<>>, 0), events |-> <<>>]
    ELSE LET df == parse_dates_safely(file.rows)
         IN  IF ~df.ok
             THEN [error |-> Err("MalformedField", <<>>, 0), events |-> <<>>]
             ELSE [error |-> NoError, events |-> sorted_by_date(EventsOf(df.rows))]

(***************************************************************************)
(* DataLoader.build_standard_schedule                                      *)
(***************************************************************************)
\* the inner loop: one RoleDemand per rule of the template, in rule order
DemandsOf(event, template) ==
    [k \in 1..Len(template.rules) |->
        [date |-> event.date,
         event_type |-> template.name,
         role |-> template.rules[k].role,
         min_qty |-> template.rules[k].min_qty,
         max_qty |-> template.rules[k].max_qty,
         source |-> "Template"]]

\* the loop over the events, from event i on; templates_map.get() of a
\* missing key is None, and an EventTemplate object is truthy
RECURSIVE build_events(_, _, _, _)
build_events(events, map, i, demands) ==
    IF i > Len(events)
    THEN [error |-> NoError, demands |-> demands]
    ELSE LET event == events[i]
         IN  IF event.event_template \notin DOMAIN map
             THEN [error |-> Err("UndefinedTemplate", event.event_template,
                                 event.date),
                   demands |-> <<>>]
             ELSE build_events(events, map, i + 1,
                      demands \o DemandsOf(event, map[event.event_template]))

\* faulty variant: only the first rule of a template is expanded
RECURSIVE build_events_first_rule(_, _, _, _)
build_events_first_rule(events, map, i, demands) ==
    IF i > Len(events)
    THEN [error |-> NoError, demands |-> demands]
    ELSE LET event == events[i]
         IN  IF event.event_template \notin DOMAIN map
             THEN [error |-> Err("UndefinedTemplate", event.event_template,
                                 event.date),
                   demands |-> <<>>]
             ELSE build_events_first_rule(events, map, i + 1,
                      demands \o SubSeq(DemandsOf(event, map[event.event_template]),
                                        1, 1))

build_standard_schedule_first_rule(events, map) ==
    build_events_first_rule(events, map, 1, <<>>)

\* faulty variant: the demands of an event are put in front of those built so far
RECURSIVE build_events_prepend(_, _, _, _)
build_events_prepend(events, map, i, demands) ==
    IF i > Len(events)
    THEN [error |-> NoError, demands |-> demands]
    ELSE LET event == events[i]
         IN  IF event.event_template \notin DOMAIN map
             THEN [error |-> Err("UndefinedTemplate", event.event_template,
                                 event.date),
                   demands |-> <<>>]
             ELSE build_events_prepend(events, map, i + 1,
                      DemandsOf(event, map[event.event_template]) \o demands)

build_standard_schedule_prepend(events, map) ==
    build_events_prepend(events, map, 1, <<>>)

\* faulty variant: an event whose template is undefined is skipped
RECURSIVE build_events_skip(_, _, _, _)
build_events_skip(events, map, i, demands) ==
    IF i > Len(events)
    THEN [error |-> NoError, demands |-> demands]
    ELSE LET event == events[i]
         IN  IF event.event_template \notin DOMAIN map
             THEN build_events_skip(events, map, i + 1, demands)
             ELSE build_events_skip(events, map, i + 1,
                      demands \o DemandsOf(event, map[event.event_template]))

build_standard_schedule_skip(events, map) ==
    build_events_skip(events, map, 1, <<>>)

build_standard_schedule(events, map) == build_events(events, map, 1, <<>>)

(***************************************************************************)
(* DataLoader.apply_custom_overrides: returns its argument; the custom     *)
(* demands file is not opened.                                             *)
(***************************************************************************)
apply_custom_overrides(demands, file) == demands

(***************************************************************************)
(* DataLoader.load_all, one action per statement.  A call that raises      *)
(* leaves load_all at once: the exception is kept in error, no further     *)
(* local is bound and nothing is returned.                                 *)
(***************************************************************************)
Raise(e) ==
    /\ error' = e
    /\ pc' = "failed"
    /\ UNCHANGED <<members_list, fingerprint_map, unavailability_map,
                   templates_map, events_list, base_demands, final_demands,
                   result>>

\* faulty variant: the exception of load_members is swallowed and load_all goes on
\* with an empty roster
LoadMembersSwallow ==
    /\ pc = "load_members"
    /\ steps' = Append(steps, "load_members")
    /\ LET r == load_members(fs.members)
       IN  /\ members_list' = r.members
           /\ fingerprint_map' = r.fingerprint_map
           /\ pc' = "load_unavailability"
           /\ UNCHANGED <<unavailability_map, templates_map, events_list,
                          base_demands, final_demands, error, result>>
    /\ UNCHANGED fs

LoadMembers ==
    /\ pc = "load_members"
    /\ steps' = Append(steps, "load_members")
    /\ LET r == load_members(fs.members)
       IN  IF r.error # NoError
           THEN Raise(r.error)
           ELSE /\ members_list' = r.members
                /\ fingerprint_map' = r.fingerprint_map
                /\ pc' = "load_unavailability"
                /\ UNCHANGED <<unavailability_map, templates_map, events_list,
                               base_demands, final_demands, error, result>>
    /\ UNCHANGED fs

LoadUnavailability ==
    /\ pc = "load_unavailability"
    /\ steps' = Append(steps, "load_unavailability")
    /\ LET r == load_unavailability(fs.unavailabilities, fingerprint_map)
       IN  IF r.error # NoError
           THEN Raise(r.error)
           ELSE /\ unavailability_map' = r.unavailabilities
                /\ pc' = "load_templates"
                /\ UNCHANGED <<members_list, fingerprint_map, templates_map,
                               events_list, base_demands, final_demands, error,
                               result>>
    /\ UNCHANGED fs

LoadTemplates ==
    /\ pc = "load_templates"
    /\ steps' = Append(steps, "load_templates")
    /\ LET r == load_templates(fs.templates)
       IN  IF r.error # NoError
           THEN Raise(r.error)
           ELSE /\ templates_map' = r.templates
                /\ pc' = "load_events"
                /\ UNCHANGED <<members_list, fingerprint_map, unavailability_map,
                               events_list, base_demands, final_demands, error,
                               result>>
    /\ UNCHANGED fs

LoadEvents ==
    /\ pc = "load_events"
    /\ steps' = Append(steps, "load_events")
    /\ LET r == load_events(fs.schedule)
       IN  IF r.error # NoError
           THEN Raise(r.error)
           ELSE /\ events_list' = r.events
                /\ pc' = "build_standard_schedule"
                /\ UNCHANGED <<members_list, fingerprint_map, unavailability_map,
                               templates_map, base_demands, final_demands, error,
                               result>>
    /\ UNCHANGED fs

BuildStandardSchedule ==
    /\ pc = "build_standard_schedule"
    /\ steps' = Append(steps, "build_standard_schedule")
    /\ LET r == build_standard_schedule(events_list, templates_map)
       IN  IF r.error # NoError
           THEN Raise(r.error)
           ELSE /\ base_demands' = r.demands
                /\ pc' = "apply_custom_overrides"
                /\ UNCHANGED <<members_list, fingerprint_map, unavailability_map,
                               templates_map, events_list, final_demands, error,
                               result>>
    /\ UNCHANGED fs

ApplyCustomOverrides ==
    /\ pc = "apply_custom_overrides"
    /\ steps' = Append(steps, "apply_custom_overrides")
    /\ final_demands' = apply_custom_overrides(base_demands, fs.custom_demands)
    /\ pc' = "return"
    /\ UNCHANGED <<fs, members_list, fingerprint_map, unavailability_map,
                   templates_map, events_list, base_demands, error, result>>

Return ==
    /\ pc = "return"
    /\ result' = [returned |-> TRUE, members |-> members_list,
                  demands |-> final_demands,
                  unavailability |-> unavailability_map]
    /\ pc' = "done"
    /\ UNCHANGED <<fs, steps, members_list, fingerprint_map, unavailability_map,
                   templates_map, events_list, base_demands, final_demands, error>>

Next ==
    \/ LoadMembers
    \/ LoadUnavailability
    \/ LoadTemplates
    \/ LoadEvents
    \/ BuildStandardSchedule
    \/ ApplyCustomOverrides
    \/ Return

(***************************************************************************)
(* The inputs.  Names: "Ann Lee", "ann lee ", "Bob" on the roster;         *)
(* " ANN LEE", "bob", "Cy" in the unavailability table; templates "Sun",   *)
(* "Sun ", "Wed", and "Fri" which no template table defines; roles "u"     *)
(* and "g".                                                                *)
(***************************************************************************)
AnnLee == <<65, 110, 110, 32, 76, 101, 101>>

AnnLeeLower == <<97, 110, 110, 32, 108, 101, 101, 32>>

Bob == <<66, 111, 98>>

AnnLeeUpper == <<32, 65, 78, 78, 32, 76, 69, 69>>

BobLower == <<98, 111, 98>>

Cy == <<67, 121>>

Sun == <<83, 117, 110>>

SunSpace == <<83, 117, 110, 32>>

Wed == <<87, 101, 100>>

Fri == <<70, 114, 105>>

Usher == <<117>>

Greeter == <<103>>

UsherGreeter == <<117, 59, 32, 103>>

Jan7 == <<2024, 1, 7>>

Jan14 == <<2024, 1, 14>>

Jan21 == <<2024, 1, 21>>

Feb30 == <<2024, 2, 30>>

Num(tenths) == [kind |-> "num", tenths |-> tenths]

Text == [kind |-> "text", tenths |-> 0]

SeqsUpTo(S, n) == UNION {[1..k -> S] : k \in 0..n}

File(rows) == [exists |-> TRUE, rows |-> rows]

Absent == [exists |-> FALSE, rows |-> <<>>]

FilesOf(S, n) == {Absent} \cup {File(rows) : rows \in SeqsUpTo(S, n)}

MemberRow(id, name, roles) ==
    [id |-> id, name |-> name, roles |-> roles, max_shifts |-> 2]

UnavailRow(name, date) == [name |-> name, date |-> date]

TemplateRow(name, role, min, max) ==
    [event_template |-> name, role |-> role, min_qty |-> min, max_qty |-> max]

EventRow(date, name) == [date |-> date, event_template |-> name]

ValidMembers ==
    File(<<MemberRow(1, AnnLee, UsherGreeter), MemberRow(2, Bob, Greeter)>>)

ValidUnavailabilities == File(<<UnavailRow(AnnLeeUpper, Jan7)>>)

ValidTemplates ==
    File(<<TemplateRow(Sun, Usher, Num(10), Num(20)),
           TemplateRow(Sun, Greeter, Num(10), Num(10))>>)

ValidSchedule == File(<<EventRow(Jan7, Sun)>>)

ValidCustomDemands == File(<<>>)

InitLocals ==
    /\ pc = "load_members"
    /\ steps = <<>>
    /\ members_list = <<>>
    /\ fingerprint_map = EmptyMap
    /\ unavailability_map = {}
    /\ templates_map = EmptyMap
    /\ events_list = <<>>
    /\ base_demands = <<>>
    /\ final_demands = <<>>
    /\ error = NoError
    /\ result = NoResult

Folder(m, u, t, s, c) ==
    [members |-> m, unavailabilities |-> u, templates |-> t, schedule |-> s,
     custom_demands |-> c]

(***************************************************************************)
(* Spec: load_all on a data folder in which every file may be absent,      *)
(* valid or invalid.                                                       *)
(***************************************************************************)
Init ==
    /\ \E m \in FilesOf({MemberRow(1, AnnLee, Usher),
                         MemberRow(2, AnnLeeLower, Greeter)}, MaxRows),
          u \in FilesOf({UnavailRow(AnnLeeUpper, Jan7), UnavailRow(Cy, Jan7)},
                        MaxRows),
          t \in FilesOf({TemplateRow(Sun, Usher, Num(10), Num(20)),
                         TemplateRow(Wed, Greeter, Text, Num(10))}, MaxRows),
          s \in FilesOf({EventRow(Jan7, SunSpace), EventRow(Jan14, Wed)}, MaxRows),
          c \in {Absent, ValidCustomDemands} :
            fs = Folder(m, u, t, s, c)
    /\ InitLocals

Spec == Init /\ [][Next]_vars

(***************************************************************************)
(* SpecMembers: load_all on every roster of up to MaxMembers rows.         *)
(***************************************************************************)
MemberRows ==
    {MemberRow(id, name, roles) :
        id \in {1, 2}, name \in {AnnLee, AnnLeeLower, Bob},
        roles \in {Usher, UsherGreeter}}

InitMembers ==
    /\ \E m \in FilesOf(MemberRows, MaxMembers) :
            fs = Folder(m, ValidUnavailabilities, ValidTemplates, ValidSchedule,
                        ValidCustomDemands)
    /\ InitLocals

SpecMembers == InitMembers /\ [][Next]_vars

(***************************************************************************)
(* SpecUnavail: load_all on every unavailability table of up to MaxUnavail *)
(* rows, behind a roster of up to MaxRows rows.                            *)
(***************************************************************************)
UnavailRows ==
    {UnavailRow(name, date) :
        name \in {AnnLeeUpper, BobLower, Cy}, date \in {Jan7, Jan14, Feb30}}

InitUnavail ==
    /\ \E m \in FilesOf({MemberRow(1, AnnLee, Usher), MemberRow(2, Bob, Greeter)},
                        MaxRows),
          u \in FilesOf(UnavailRows, MaxUnavail) :
            fs = Folder(m, u, ValidTemplates, ValidSchedule, ValidCustomDemands)
    /\ InitLocals

SpecUnavail == InitUnavail /\ [][Next]_vars

(***************************************************************************)
(* SpecTemplates: load_all on every template table of up to                *)
(* MaxTemplateRows rows.                                                   *)
(***************************************************************************)
TemplateRows ==
    {TemplateRow(name, role, min, max) :
        name \in {Sun, SunSpace, Wed}, role \in {Usher, Greeter},
        min \in {Num(-10), Num(10), Num(15)}, max \in {Num(20), Text}}

InitTemplates ==
    /\ \E t \in FilesOf(TemplateRows, MaxTemplateRows) :
            fs = Folder(ValidMembers, ValidUnavailabilities, t, ValidSchedule,
                        ValidCustomDemands)
    /\ InitLocals

SpecTemplates == InitTemplates /\ [][Next]_vars

(***************************************************************************)
(* SpecEvents: load_all on every calendar of up to MaxEvents rows.         *)
(***************************************************************************)
EventRows ==
    {EventRow(date, name) :
        date \in {Jan7, Jan14, Jan21, Feb30}, name \in {Sun, SunSpace, Wed}}

InitEvents ==
    /\ \E s \in FilesOf(EventRows, MaxEvents) :
            fs = Folder(ValidMembers, ValidUnavailabilities,
                        File(<<TemplateRow(Sun, Usher, Num(10), Num(20)),
                               TemplateRow(Wed, Greeter, Num(10), Num(10))>>),
                        s, ValidCustomDemands)
    /\ InitLocals

SpecEvents == InitEvents /\ [][Next]_vars

(***************************************************************************)
(* SpecBuild: load_all on every template table of up to MaxBuildRows rows  *)
(* and every calendar of up to MaxBuildRows rows, some of whose events     *)
(* name a template the table does not define.                              *)
(***************************************************************************)
MaxBuildRows == 2

BuildTemplateRows ==
    {TemplateRow(Sun, Usher, Num(10), Num(20)),
     TemplateRow(Sun, Greeter, Num(10), Num(10)),
     TemplateRow(Wed, Usher, Num(0), Num(10)),
     TemplateRow(Wed, Greeter, Num(20), Num(20))}

BuildEventRows ==
    {EventRow(date, name) : date \in {Jan7, Jan14}, name \in {SunSpace, Wed, Fri}}

InitBuild ==
    /\ \E t \in FilesOf(BuildTemplateRows, MaxBuildRows),
          s \in FilesOf(BuildEventRows, MaxBuildRows) :
            fs = Folder(ValidMembers, ValidUnavailabilities, t, s,
                        ValidCustomDemands)
    /\ InitLocals

SpecBuild == InitBuild /\ [][Next]_vars

(***************************************************************************)
(* What the properties below speak of: which calls load_all has made, and  *)
(* the tables as written in the files.                                     *)
(***************************************************************************)
Order ==
    <<"load_members", "load_unavailability", "load_templates", "load_events",
      "build_standard_schedule", "apply_custom_overrides">>

\* the k-th call of load_all has been made / has returned normally
Called(k) == Len(steps) >= k

Returned(k) == Len(steps) >= k /\ ~(pc = "failed" /\ Len(steps) = k)

Raised(k) == pc = "failed" /\ Len(steps) = k

RosterRows == fs.members.rows

UnavailFileRows == fs.unavailabilities.rows

TemplateFileRows == fs.templates.rows

ScheduleRows == fs.schedule.rows

RECURSIVE RuleCountSum(_, _)
RuleCountSum(events, map) ==
    IF events = <<>> THEN 0
    ELSE Len(map[Head(events).event_template].rules)
            + RuleCountSum(Tail(events), map)

UndefinedEvents ==
    {i \in 1..Len(events_list) :
        events_list[i].event_template \notin DOMAIN templates_map}

FirstUndefined == CHOOSE i \in UndefinedEvents : \A j \in UndefinedEvents : i <= j

(***************************************************************************)
(* C1.  When every event's template name is a key of the template map,     *)
(* build_standard_schedule returns normally and the number of demands is   *)
(* the sum, over the events counted with repetition, of the number of      *)
(* rules of the event's template.                                          *)
(***************************************************************************)
C1_DemandCount ==
    (Called(5) /\ UndefinedEvents = {}) =>
        /\ Returned(5)
        /\ Len(base_demands) = RuleCountSum(events_list, templates_map)

\* two events of the same two-rule template: four demands
C1_Witness ==
    /\ Returned(5)
    /\ Len(events_list) = 2
    /\ events_list[1].event_template = events_list[2].event_template
    /\ Len(templates_map[events_list[1].event_template].rules) = 2
    /\ Len(base_demands) = 4

(***************************************************************************)
(* C2.  The demands come in event order and, within an event, in the rule  *)
(* order of its template: the demand at place (rules of the earlier        *)
(* events) + k is the k-th rule of the event's template with the event's   *)
(* date, the template's name, the rule's role, min_qty and max_qty and     *)
(* source "Template"; nothing else is in the list.                         *)
(***************************************************************************)
C2_DemandOrder ==
    (Called(5) /\ UndefinedEvents = {}) =>
        /\ Returned(5)
        /\ Len(base_demands) = RuleCountSum(events_list, templates_map)
        /\ \A i \in 1..Len(events_list) :
             LET template == templates_map[events_list[i].event_template]
                 before == RuleCountSum(SubSeq(events_list, 1, i - 1),
                                        templates_map)
             IN  \A k \in 1..Len(template.rules) :
                    base_demands[before + k] =
                        [date |-> events_list[i].date,
                         event_type |-> template.name,
                         role |-> template.rules[k].role,
                         min_qty |-> template.rules[k].min_qty,
                         max_qty |-> template.rules[k].max_qty,
                         source |-> "Template"]

\* template "Sun" with rules (u,1,2), (g,1,1) and an event on 2024-01-07
\* before one on 2024-01-14: four demands, usher before greeter, twice
C2_Witness ==
    /\ Returned(5)
    /\ Len(events_list) = 2
    /\ events_list[1].date < events_list[2].date
    /\ base_demands =
         <<[date |-> 20240107, event_type |-> Sun, role |-> Usher,
            min_qty |-> 1, max_qty |-> 2, source |-> "Template"],
           [date |-> 20240107, event_type |-> Sun, role |-> Greeter,
            min_qty |-> 1, max_qty |-> 1, source |-> "Template"],
           [date |-> 20240114, event_type |-> Sun, role |-> Usher,
            min_qty |-> 1, max_qty |-> 2, source |-> "Template"],
           [date |-> 20240114, event_type |-> Sun, role |-> Greeter,
            min_qty |-> 1, max_qty |-> 1, source |-> "Template"]>>

(***************************************************************************)
(* C3.  When some event names a template that is no key of the template    *)
(* map, build_standard_schedule raises the undefined-template error with   *)
(* the date and template name of the first such event, and load_all        *)
(* returns nothing: not the demands of the earlier events either.          *)
(***************************************************************************)
C3_UndefinedTemplate ==
    /\ (Called(5) /\ UndefinedEvents # {}) =>
          /\ Raised(5)
          /\ error = Err("UndefinedTemplate",
                         events_list[FirstUndefined].event_template,
                         events_list[FirstUndefined].date)
          /\ base_demands = <<>>
          /\ final_demands = <<>>
    /\ (Returned(4) /\ UndefinedEvents # {}) =>
          /\ pc # "done"
          /\ result = NoResult

\* the first event has a template with rules, the second has none
C3_Witness ==
    /\ Raised(5)
    /\ Len(events_list) = 2
    /\ UndefinedEvents = {2}
    /\ Len(templates_map[events_list[1].event_template].rules) > 0
    /\ error.kind = "UndefinedTemplate"

(***************************************************************************)
(* C4.  When two roster rows have names with the same fingerprint,         *)
(* load_members raises the duplicate-identity error at the second such     *)
(* row and returns nothing, neither rows merged nor the later row in place *)
(* of the earlier; when it returns, the fingerprint map has exactly one    *)
(* entry per Member and maps each member's fingerprint to that member's    *)
(* id.                                                                     *)
(***************************************************************************)
CollidingRows ==
    {j \in 1..Len(RosterRows) :
        \E i \in 1..(j - 1) :
            get_key_fingerprint(RosterRows[i].name)
                = get_key_fingerprint(RosterRows[j].name)}

FirstColliding == CHOOSE j \in CollidingRows : \A k \in CollidingRows : j <= k

C4_DuplicateIdentity ==
    (Called(1) /\ fs.members.exists) =>
        IF CollidingRows # {}
        THEN /\ Raised(1)
             /\ error = Err("DuplicateIdentity",
                            strip(RosterRows[FirstColliding].name), 0)
             /\ members_list = <<>>
             /\ fingerprint_map = EmptyMap
             /\ result = NoResult
        ELSE /\ Returned(1)
             /\ Len(members_list) = Len(RosterRows)
             /\ Cardinality(DOMAIN fingerprint_map) = Len(members_list)
             /\ \A k \in 1..Len(members_list) :
                  /\ get_key_fingerprint(members_list[k].name)
                        \in DOMAIN fingerprint_map
                  /\ fingerprint_map[get_key_fingerprint(members_list[k].name)]
                        = members_list[k].id
                  /\ members_list[k].id = RosterRows[k].id

\* "Ann Lee" (id 1) and "ann lee " (id 2)
C4_Witness ==
    /\ Raised(1)
    /\ Len(RosterRows) = 2
    /\ RosterRows[1].name = AnnLee /\ RosterRows[1].id = 1
    /\ RosterRows[2].name = AnnLeeLower /\ RosterRows[2].id = 2
    /\ error.kind = "DuplicateIdentity"

(***************************************************************************)
(* C5.  When the unavailability file exists and every date in it parses,   *)
(* load_unavailability raises the unknown-member error if the fingerprint  *)
(* of some row's name is no key of the fingerprint map, and drops no such  *)
(* row; when it returns, the set holds exactly the (member id, date) pairs *)
(* the rows resolve to, each id a value of the fingerprint map, rows that  *)
(* resolve to the same pair being one element.                             *)
(***************************************************************************)
UnresolvedRows ==
    {i \in 1..Len(UnavailFileRows) :
        get_key_fingerprint(UnavailFileRows[i].name) \notin DOMAIN fingerprint_map}

FirstUnresolved == CHOOSE i \in UnresolvedRows : \A j \in UnresolvedRows : i <= j

UnavailDatesParse ==
    \A i \in 1..Len(UnavailFileRows) : DateIsValid(UnavailFileRows[i].date)

UnavailOutcome ==
    IF UnresolvedRows # {}
    THEN /\ Raised(2)
         /\ error = Err("UnknownMember", UnavailFileRows[FirstUnresolved].name, 0)
         /\ unavailability_map = {}
         /\ result = NoResult
    ELSE /\ Returned(2)
         /\ unavailability_map =
              {<<fingerprint_map[get_key_fingerprint(UnavailFileRows[i].name)],
                 ToDate(UnavailFileRows[i].date)>> : i \in 1..Len(UnavailFileRows)}
         /\ \A b \in unavailability_map :
              \E f \in DOMAIN fingerprint_map : fingerprint_map[f] = b[1]

C5_UnknownMember ==
    (Called(2) /\ fs.unavailabilities.exists /\ UnavailDatesParse) => UnavailOutcome

\* the claim as first stated: whatever the dates are
C5_Original ==
    (Called(2) /\ fs.unavailabilities.exists) =>
        IF UnresolvedRows # {}
        THEN Raised(2) /\ error.kind = "UnknownMember"
        ELSE Returned(2) => UnavailOutcome

\* a row that resolves, then one that does not
C5_Witness ==
    /\ Raised(2)
    /\ error.kind = "UnknownMember"
    /\ Len(UnavailFileRows) = 2
    /\ UnresolvedRows = {2}
    /\ DOMAIN fingerprint_map # {}

(***************************************************************************)
(* The tables as written: which inputs are valid for which component.      *)
(***************************************************************************)
MembersValid ==
    /\ fs.members.exists
    /\ CollidingRows = {}

RosterFingerprints ==
    {get_key_fingerprint(RosterRows[i].name) : i \in 1..Len(RosterRows)}

UnavailabilitiesValid ==
    \/ ~fs.unavailabilities.exists
    \/ /\ UnavailDatesParse
       /\ \A i \in 1..Len(UnavailFileRows) :
            get_key_fingerprint(UnavailFileRows[i].name) \in RosterFingerprints

QuantityIsNumber(cell) == cell.kind = "num"

TemplatesValid ==
    /\ fs.templates.exists
    /\ \A i \in 1..Len(TemplateFileRows) :
         /\ QuantityIsNumber(TemplateFileRows[i].min_qty)
         /\ QuantityIsNumber(TemplateFileRows[i].max_qty)

ScheduleValid ==
    /\ fs.schedule.exists
    /\ \A i \in 1..Len(ScheduleRows) : DateIsValid(ScheduleRows[i].date)

TemplateNames ==
    {strip(TemplateFileRows[i].event_template) : i \in 1..Len(TemplateFileRows)}

EventsDefined ==
    \A i \in 1..Len(ScheduleRows) :
        strip(ScheduleRows[i].event_template) \in TemplateNames

(***************************************************************************)
(* C6.  When the unavailability file is absent, load_unavailability        *)
(* returns the empty set without raising, and if the members, templates    *)
(* and schedule inputs are valid load_all returns the members, the full    *)
(* demand list and an empty unavailability set.  Of the files load_all     *)
(* opens the unavailability file is the only one whose absence does not    *)
(* abort the load.                                                         *)
(***************************************************************************)
AbsentUnavailabilityOutcome ==
    /\ (Called(2) /\ ~fs.unavailabilities.exists) =>
          /\ Returned(2)
          /\ unavailability_map = {}
    /\ (/\ ~fs.unavailabilities.exists
        /\ MembersValid /\ TemplatesValid /\ ScheduleValid /\ EventsDefined) =>
          /\ pc # "failed"
          /\ pc = "done" =>
                /\ result.returned
                /\ Len(result.members) = Len(RosterRows)
                /\ result.demands = base_demands
                /\ Len(result.demands) = RuleCountSum(events_list, templates_map)
                /\ result.unavailability = {}

C6_AbsentUnavailability ==
    /\ AbsentUnavailabilityOutcome
    /\ pc = "done" =>
          fs.members.exists /\ fs.templates.exists /\ fs.schedule.exists

\* the claim as first stated: of all the files of the data folder
C6_Original ==
    /\ AbsentUnavailabilityOutcome
    /\ pc = "done" =>
          /\ fs.members.exists /\ fs.templates.exists /\ fs.schedule.exists
          /\ fs.custom_demands.exists

C6_Witness ==
    /\ pc = "done"
    /\ ~fs.unavailabilities.exists
    /\ result.returned
    /\ Len(result.members) > 0
    /\ Len(result.demands) > 0
    /\ result.unavailability = {}

(***************************************************************************)
(* C7.  Whatever the order of the calendar rows, load_events returns the   *)
(* rows' events, each once, in ascending order of date, and events of the  *)
(* same date in the order of their rows.                                   *)
(***************************************************************************)
RowEvents ==
    [i \in 1..Len(ScheduleRows) |->
        [date |-> ToDate(ScheduleRows[i].date),
         event_template |-> strip(ScheduleRows[i].event_template)]]

OnDate(events, d) == SelectSeq(events, LAMBDA e : e.date = d)

C7_EventsSorted ==
    Returned(4) =>
        /\ Len(events_list) = Len(ScheduleRows)
        /\ \A i, j \in 1..Len(events_list) :
             i < j => events_list[i].date <= events_list[j].date
        /\ \A i \in 1..Len(ScheduleRows) :
             OnDate(events_list, RowEvents[i].date)
                = OnDate(RowEvents, RowEvents[i].date)

\* rows out of order, two of them on the same date with different templates
C7_Witness ==
    /\ Returned(4)
    /\ Len(ScheduleRows) = 3
    /\ RowEvents[1].date > RowEvents[3].date
    /\ RowEvents[1].date = RowEvents[2].date
    /\ RowEvents[1].event_template # RowEvents[2].event_template
    /\ events_list = <<RowEvents[3], RowEvents[1], RowEvents[2]>>

(***************************************************************************)
(* C8.  load_templates returns a map keyed by trimmed template name in     *)
(* which the rule list of a key holds exactly the rules of the table rows  *)
(* whose template name trims to the key, in table row order; rows whose    *)
(* raw names differ only in surrounding whitespace go to the same template *)
(* and none is lost.                                                       *)
(***************************************************************************)
RowsOfTemplate(key) ==
    SelectSeq(TemplateFileRows, LAMBDA r : strip(r.event_template) = key)

RuleOfRow(row) ==
    [role |-> row.role, min_qty |-> int(row.min_qty).value,
     max_qty |-> int(row.max_qty).value]

C8_TemplateGrouping ==
    Returned(3) =>
        /\ DOMAIN templates_map = TemplateNames
        /\ \A key \in DOMAIN templates_map :
             /\ templates_map[key].name = key
             /\ templates_map[key].rules =
                  [k \in 1..Len(RowsOfTemplate(key)) |->
                      RuleOfRow(RowsOfTemplate(key)[k])]

(***************************************************************************)
(* C10.  load_templates parses every quantity as a non-negative integer:   *)
(* when it returns, every rule, and every demand built from it, has        *)
(* min_qty >= 0 and max_qty >= 0, and a row with a negative or             *)
(* non-integer quantity makes the load fail.                               *)
(***************************************************************************)
IsNonNegativeInteger(cell) ==
    cell.kind = "num" /\ cell.tenths >= 0 /\ cell.tenths % 10 = 0

C10_NonNegativeQuantities ==
    /\ Returned(3) =>
          \A key \in DOMAIN templates_map :
             \A k \in 1..Len(templates_map[key].rules) :
                /\ templates_map[key].rules[k].min_qty >= 0
                /\ templates_map[key].rules[k].max_qty >= 0
    /\ \A k \in 1..Len(base_demands) :
          base_demands[k].min_qty >= 0 /\ base_demands[k].max_qty >= 0
    /\ (/\ Called(3)
        /\ fs.templates.exists
        /\ \E i \in 1..Len(TemplateFileRows) :
              \/ ~IsNonNegativeInteger(TemplateFileRows[i].min_qty)
              \/ ~IsNonNegativeInteger(TemplateFileRows[i].max_qty))
          => Raised(3)

(***************************************************************************)
(* C9.  load_all calls members, unavailability, templates, events, demand  *)
(* builder, override applier in this order; the first call that raises     *)
(* ends the load, no later call is made and nothing is returned.  When     *)
(* several inputs are invalid, the error is that of the earliest component *)
(* in this order whose input is invalid, and a tuple is returned only if   *)
(* every call returned.                                                    *)
(***************************************************************************)
\* the component that raises first on this data folder, 7 if none does
FirstInvalid ==
    IF ~MembersValid THEN 1
    ELSE IF ~UnavailabilitiesValid THEN 2
    ELSE IF ~TemplatesValid THEN 3
    ELSE IF ~ScheduleValid THEN 4
    ELSE IF ~EventsDefined THEN 5
    ELSE 7

ErrorKinds(k) ==
    CASE k = 1 -> {"SourceNotFound", "DuplicateIdentity"}
      [] k = 2 -> {"MalformedField", "UnknownMember"}
      [] k = 3 -> {"SourceNotFound", "MalformedField"}
      [] k = 4 -> {"SourceNotFound", "MalformedField"}
      [] k = 5 -> {"UndefinedTemplate"}
      [] OTHER -> {}

\* the locals of load_all that the calls after the k-th would have bound
UnboundAfter(k) ==
    /\ k < 1 => members_list = <<>> /\ fingerprint_map = EmptyMap
    /\ k < 2 => unavailability_map = {}
    /\ k < 3 => templates_map = EmptyMap
    /\ k < 4 => events_list = <<>>
    /\ k < 5 => base_demands = <<>>
    /\ k < 6 => final_demands = <<>>

C9_FailFast ==
    /\ Len(steps) <= Len(Order)
    /\ steps = SubSeq(Order, 1, Len(steps))
    /\ Len(steps) <= FirstInvalid
    /\ pc = "failed" =>
          /\ Len(steps) = FirstInvalid
          /\ error.kind \in ErrorKinds(FirstInvalid)
          /\ UnboundAfter(FirstInvalid - 1)
          /\ result = NoResult
    /\ pc # "failed" =>
          /\ error = NoError
          /\ UnboundAfter(Len(steps))
    /\ result.returned =>
          /\ pc = "done"
          /\ steps = Order
          /\ FirstInvalid = 7
          /\ result = [returned |-> TRUE, members |-> members_list,
                       demands |-> final_demands,
                       unavailability |-> unavailability_map]

\* a duplicate roster name and an undefined template at once
C9_Witness ==
    /\ pc = "failed"
    /\ CollidingRows # {}
    /\ TemplatesValid /\ ScheduleValid /\ ~EventsDefined
    /\ steps = <<"load_members">>
    /\ error.kind = "DuplicateIdentity"

====
